---- MODULE Spec2Model ----
(***************************************************************************)
(* A model of arista/core/utils.py (MmapResource, Retrying, the kernel     *)
(* command line) and arista/core/platform.py (the system eeprom cache and  *)
(* the platform registry).                                                 *)
(*                                                                         *)
(* Python objects are tagged records, so that None, a mapping object, a    *)
(* dict and an int can be compared with each other.  An exception that a   *)
(* call raises is the name of its Python class; "none" means the call      *)
(* returned.                                                               *)
(***************************************************************************)
EXTENDS Integers, Sequences, FiniteSets, TLC

VARIABLES
  mmap_,      \* MmapResource.mmap_: None or the mapping object
  file,       \* the bytes of the backing file at path_ (MAP_SHARED: the mapping is the file)
  scope,      \* "out" or "in": whether control is inside a `with resource:` block
  openFds,    \* descriptors opened by map() and not closed again
  op,         \* the last call: its name and arguments
  ret,        \* what the last call returned
  err,        \* the exception the last call raised, "none" when it returned
  ops,        \* the os / mmap / driver primitives the last call performed, in order
  syseeprom,  \* platform.syseeprom
  simulation, \* platform.simulation (from utils import simulation)
  eeprom,     \* the system eeprom behind /sys/bus/i2c/drivers/eeprom/1-0052/eeprom
  firstRead,  \* history: what the first getSysEeprom() that returned gave, None before
  platforms,  \* platform.platforms: the dict from sku to platform class
  instances,  \* the platform objects constructed so far
  cmdline,    \* the text of /proc/cmdline, as a sequence of pieces
  cmdlineDict,       \* utils.cmdlineDict
  utils_simulation,  \* utils.simulation
  debug,             \* utils.debug
  firstDict,  \* history: what the first getCmdlineDict() that returned gave, None before
  retrying,   \* a Retrying object: interval, delay, maxAttempts
  iterator,   \* the Iterator that the last iter(retrying) made, None before
  clock,      \* time since retrying was constructed and since iterator was made
  exhausted   \* history: has iterator, has any iterator of retrying, raised StopIteration

vars == <<mmap_, file, scope, openFds, op, ret, err, ops,
          syseeprom, simulation, eeprom, firstRead, platforms, instances,
          cmdline, cmdlineDict, utils_simulation, debug, firstDict,
          retrying, iterator, clock, exhausted>>

windowVars == <<mmap_, file, scope, openFds>>
platformVars == <<syseeprom, simulation, eeprom, firstRead>>
registryVars == <<platforms, instances>>
modeVars == <<cmdline, cmdlineDict, utils_simulation, debug, firstDict>>
retryVars == <<retrying, iterator, clock, exhausted>>

(***************************************************************************)
(* Bounds                                                                  *)
(***************************************************************************)
\* the largest backing file, in bytes
MaxSize == 8

(***************************************************************************)
(* Python values                                                           *)
(***************************************************************************)
None == [type |-> "NoneType"]

PyBool(b) == [type |-> "bool", v |-> b]

PyInt(n) == [type |-> "int", v |-> n]

Self == [type |-> "MmapResource"]

\* a mapping object over the first n bytes of the backing file
MmapObj(n) == [type |-> "mmap", len |-> n]

\* a dict, as the set of its <<key, value>> items
Dict(items) == [type |-> "dict", items |-> items]

\* Python's truth value of an object: None is false, a container is true
\* when it is not empty (mmap and dict define __len__)
Truthy(x) ==
  CASE x.type = "NoneType" -> FALSE
    [] x.type = "bool" -> x.v
    [] x.type = "int" -> x.v # 0
    [] x.type = "mmap" -> x.len > 0
    [] x.type = "dict" -> x.items # {}
    [] OTHER -> TRUE

\* `key in d` for a dict d
HasKey(d, key) == \E it \in d.items : it[1] = key

\* d[key] for a dict d that has the key
GetItem(d, key) == (CHOOSE it \in d.items : it[1] = key)[2]

(***************************************************************************)
(* struct.pack / struct.unpack with format '<L', and slicing               *)
(***************************************************************************)
\* an unsigned 32-bit integer, as its two 16-bit halves (its value is
\* 65536 * hi + lo, which is beyond the integers TLC computes with)
U32(hi, lo) == [hi |-> hi, lo |-> lo]

\* the values write32 is given: 0x01020304, 0xAABBCCDD and 0xFFFFFFFF
Values == {U32(258, 772), U32(43707, 52445), U32(65535, 65535)}

\* the offsets read32 is given on a file of n bytes: every offset from 0 to
\* one past the end
ReadOffsets(n) == 0 .. (n + 1)

\* the offsets write32 is given on a file of n bytes: every 4-byte-aligned
\* offset, and every offset from the last one that fits (n - 4) to one past
\* the end (n + 1)
WriteOffsets(n) == {a \in 0 .. (n + 1) : a % 4 = 0 \/ a + 4 >= n}

\* the sizes the backing file may have; an empty file cannot be mapped
FileSizes == 0 .. MaxSize

\* pack with the bytes in the opposite order, as '>L' would give
packBigEndian(v) == <<v.hi \div 256, v.hi % 256, v.lo \div 256, v.lo % 256>>

\* pack('<L', v): the four bytes of v, least significant first
pack(v) == <<v.lo % 256, v.lo \div 256, v.hi % 256, v.hi \div 256>>

\* unpack('<L', s)[0] for a 4-byte s
unpack(s) == U32(s[3] + 256 * s[4], s[1] + 256 * s[2])

\* Python's adjustment of one slice index against a length n
SliceIndex(i, n) == IF i < 0 THEN (IF i + n < 0 THEN 0 ELSE i + n)
                             ELSE (IF i > n THEN n ELSE i)

\* the 0-based half-open range [start, stop) that [a:b] selects in n bytes
SliceStart(a, n) == SliceIndex(a, n)

SliceStop(b, n) == SliceIndex(b, n)

SliceLen(a, b, n) ==
  IF SliceStop(b, n) > SliceStart(a, n) THEN SliceStop(b, n) - SliceStart(a, n) ELSE 0

\* m[a:b] for the mapping m over the file contents f
GetSlice(f, m, a, b) ==
  [i \in 1 .. SliceLen(a, b, m.len) |-> f[SliceStart(a, m.len) + i]]

\* the file after m[a:b] = s, for an s of the slice's length
SetSlice(f, m, a, b, s) ==
  [i \in 1 .. Len(f) |->
     IF i > SliceStart(a, m.len) /\ i <= SliceStart(a, m.len) + SliceLen(a, b, m.len)
       THEN s[i - SliceStart(a, m.len)]
       ELSE f[i]]

(***************************************************************************)
(* MmapResource: what each method does to the resource, as a record        *)
(*   mmap_  the new self.mmap_                                             *)
(*   file   the new contents of the backing file                           *)
(*   ret    the value returned (None when the call raised)                 *)
(*   err    the exception raised, "none" when the call returned            *)
(*   ops    the primitives performed, in order                             *)
(***************************************************************************)
\* the primitive of map() that raises EnvironmentError, "none" when none does
Failures == {"none", "os.open", "os.fstat", "mmap.mmap"}

Result(m, f, r, e, o) == [mmap_ |-> m, file |-> f, ret |-> r, err |-> e, ops |-> o]

\* os.close(fd) inside `try: ... except EnvironmentError: pass`: the descriptor
\* is released whether or not the call reports an error, and the error is dropped
CloseFd == <<"os.close">>

\* descriptors that a sequence of primitives leaves open
LeftOpen(o) ==
  Cardinality({i \in DOMAIN o : o[i] = "os.open"})
    - Cardinality({i \in DOMAIN o : o[i] = "os.close"})

\* map() without its first line, the assertion that nothing is mapped yet
mapUnguarded(m, f, fails) ==
  IF fails = "os.open"
    THEN Result(m, f, PyBool(FALSE), "none", <<"os.open failed">>)
  ELSE IF fails = "os.fstat"
    THEN Result(m, f, PyBool(FALSE), "none", <<"os.open", "os.fstat failed", "os.close">>)
  ELSE IF Len(f) = 0
    THEN Result(m, f, None, "ValueError",
                <<"os.open", "os.fstat", "mmap.mmap failed", "os.close">>)
  ELSE IF fails = "mmap.mmap"
    THEN Result(m, f, PyBool(FALSE), "none",
                <<"os.open", "os.fstat", "mmap.mmap failed", "os.close">>)
  ELSE Result(MmapObj(Len(f)), f, PyBool(TRUE), "none",
              <<"os.open", "os.fstat", "mmap.mmap", "os.close">>)

\* MmapResource.map()
map(m, f, fails) ==
  IF Truthy(m)
    THEN Result(m, f, None, "AssertionError", <<>>)
  ELSE IF fails = "os.open"
    THEN Result(m, f, PyBool(FALSE), "none", <<"os.open failed">>)
  ELSE IF fails = "os.fstat"
    THEN Result(m, f, PyBool(FALSE), "none",
                <<"os.open", "os.fstat failed">> \o CloseFd)
  ELSE IF Len(f) = 0
    THEN Result(m, f, None, "ValueError",
                <<"os.open", "os.fstat", "mmap.mmap failed">> \o CloseFd)
  ELSE IF fails = "mmap.mmap"
    THEN Result(m, f, PyBool(FALSE), "none",
                <<"os.open", "os.fstat", "mmap.mmap failed">> \o CloseFd)
  ELSE Result(MmapObj(Len(f)), f, PyBool(TRUE), "none",
              <<"os.open", "os.fstat", "mmap.mmap">> \o CloseFd)

\* MmapResource.__enter__()
enter(m, f, fails) ==
  LET r == map(m, f, fails) IN
  IF r.err # "none" THEN r
  ELSE IF ~Truthy(r.ret) THEN Result(r.mmap_, r.file, None, "RuntimeError", r.ops)
  ELSE Result(r.mmap_, r.file, Self, "none", r.ops)

\* MmapResource.close()
close(m, f) ==
  IF m = None
    THEN Result(m, f, None, "AttributeError", <<>>)
    ELSE Result(None, f, None, "none", <<"mmap.close">>)

\* MmapResource.__exit__(*args), entered with the error e raised in the block
\* ("none" when the block ended normally); __exit__ returns None, so e goes
\* on to the caller unless close() itself raises
exit(m, f, e) ==
  LET r == close(m, f) IN
  IF r.err # "none" THEN r ELSE Result(r.mmap_, r.file, None, e, r.ops)

\* read32 that maps the file by itself when nothing is mapped
read32Lazy(m, f, addr) ==
  LET mm == IF m = None THEN MmapObj(Len(f)) ELSE m IN
  IF Len(GetSlice(f, mm, addr, addr + 4)) # 4
    THEN Result(m, f, None, "struct.error", <<>>)
    ELSE Result(m, f, PyInt(unpack(GetSlice(f, mm, addr, addr + 4))), "none", <<>>)

\* MmapResource.read32(addr)
read32(m, f, addr) ==
  IF m = None
    THEN Result(m, f, None, "TypeError", <<>>)
  ELSE IF Len(GetSlice(f, m, addr, addr + 4)) # 4
    THEN Result(m, f, None, "struct.error", <<>>)
  ELSE Result(m, f, PyInt(unpack(GetSlice(f, m, addr, addr + 4))), "none", <<>>)

\* write32 that stores the bytes that fit when the slice is shorter than 4
write32Truncating(m, f, addr, value) ==
  IF m = None
    THEN Result(m, f, None, "TypeError", <<>>)
    ELSE Result(m, SetSlice(f, m, addr, addr + 4, pack(value)), None, "none", <<>>)

\* MmapResource.write32(addr, value)
write32(m, f, addr, value) ==
  IF m = None
    THEN Result(m, f, None, "TypeError", <<>>)
  ELSE IF SliceLen(addr, addr + 4, m.len) # Len(pack(value))
    THEN Result(m, f, None, "IndexError", <<>>)
  ELSE Result(m, SetSlice(f, m, addr, addr + 4, pack(value)), None, "none", <<>>)

(***************************************************************************)
(* The calls a program makes on one MmapResource                           *)
(***************************************************************************)
\* the errors a block may raise on its own
BlockErrors == {"none", "KeyError"}

Apply(call, r) ==
  /\ mmap_' = r.mmap_
  /\ file' = r.file
  /\ op' = call
  /\ ret' = r.ret
  /\ err' = r.err
  /\ ops' = r.ops
  /\ openFds' = openFds + LeftOpen(r.ops)

\* resource.map(), called directly
Map ==
  \E fails \in Failures :
    /\ Apply([name |-> "map"], map(mmap_, file, fails))
    /\ UNCHANGED scope
    /\ UNCHANGED <<platformVars, registryVars, modeVars, retryVars>>

\* `with resource:` reaches __enter__; the block is entered when it returns
Enter ==
  \E fails \in Failures :
    LET r == enter(mmap_, file, fails) IN
    /\ scope = "out"
    /\ Apply([name |-> "enter"], r)
    /\ scope' = IF r.err = "none" THEN "in" ELSE "out"
    /\ UNCHANGED <<platformVars, registryVars, modeVars, retryVars>>

\* resource.close(), called directly, inside or outside a block
Close ==
  /\ Apply([name |-> "close"], close(mmap_, file))
  /\ UNCHANGED scope
  /\ UNCHANGED <<platformVars, registryVars, modeVars, retryVars>>

\* control leaves the block, normally or with an error e, through __exit__
Exit ==
  \E e \in BlockErrors \cup {err} :
    /\ scope = "in"
    /\ Apply([name |-> "exit", raised |-> e], exit(mmap_, file, e))
    /\ scope' = "out"
    /\ UNCHANGED <<platformVars, registryVars, modeVars, retryVars>>

Read32 ==
  \E addr \in ReadOffsets(Len(file)) :
    /\ Apply([name |-> "read32", addr |-> addr], read32(mmap_, file, addr))
    /\ UNCHANGED scope
    /\ UNCHANGED <<platformVars, registryVars, modeVars, retryVars>>

Write32 ==
  \E addr \in WriteOffsets(Len(file)), value \in Values :
    /\ Apply([name |-> "write32", addr |-> addr, value |-> value],
             write32(mmap_, file, addr, value))
    /\ UNCHANGED scope
    /\ UNCHANGED <<platformVars, registryVars, modeVars, retryVars>>

NextWindow == Map \/ Enter \/ Close \/ Exit \/ Read32 \/ Write32

\* the first bytes of the backing file before the program touches it
InitialByte(i) == 160 + i

InitWindow ==
  /\ mmap_ = None
  /\ \E n \in FileSizes : file = [i \in 1 .. n |-> InitialByte(i)]
  /\ scope = "out"
  /\ openFds = 0

InitCall ==
  /\ op = [name |-> "init"]
  /\ ret = None
  /\ err = "none"
  /\ ops = <<>>

(***************************************************************************)
(* platform.py: the system eeprom and its process-wide cache               *)
(***************************************************************************)
PyStr(s) == [type |-> "str", v |-> s]

\* what prefdl.decode(f) returns: an object whose data() is the dict d
Prefdl(d) == [type |-> "prefdl", data |-> d]

\* an eeprom file that cannot be opened or that prefdl.decode rejects
Undecodable == [type |-> "undecodable"]

\* the dicts the eeprom may decode to
Decoded ==
  { Dict({<<"SKU", "DCS-001">>}),
    Dict({<<"SKU", "DCS-002">>, <<"SerialNumber", "JPE1">>}),
    Dict({<<"SerialNumber", "JPE1">>}),
    Dict({}) }

\* the states of the eeprom file: whether it exists and what is in it
Eeproms == [exists : BOOLEAN, content : Decoded \cup {Undecodable}]

\* the ways modprobe may end
LoadOutcomes == {"ok", "DriverLoadError"}

PResult(c, r, e, o) == [syseeprom |-> c, ret |-> r, err |-> e, ops |-> o]

\* driver.modprobe(name)
modprobe(name, oLoad) == IF oLoad = "ok" THEN "none" ELSE oLoad

\* the loop of readPrefdl() without its try / except: a decode failure
\* leaves the loop as the decoder's own exception
readPrefdlAtUncaught(c, e, o) ==
  IF ~e.exists
    THEN PResult(c, None, "RuntimeError", o \o <<"os.path.exists">>)
  ELSE IF e.content = Undecodable
    THEN PResult(c, None, "Exception",
                 o \o <<"os.path.exists", "prefdl.decode failed">>)
  ELSE PResult(c, Prefdl(e.content), "none",
               o \o <<"os.path.exists", "prefdl.decode">>)

\* the loop of readPrefdl() over the one candidate address 1-0052
readPrefdlAt(c, e, o) ==
  IF ~e.exists
    THEN PResult(c, None, "RuntimeError", o \o <<"os.path.exists">>)
  ELSE IF e.content = Undecodable
    THEN PResult(c, None, "RuntimeError",
                 o \o <<"os.path.exists", "prefdl.decode failed">>)
  ELSE PResult(c, Prefdl(e.content), "none",
               o \o <<"os.path.exists", "prefdl.decode">>)

\* readPrefdl()
readPrefdl(c, e, oLoad) ==
  IF modprobe("eeprom", oLoad) # "none"
    THEN PResult(c, None, modprobe("eeprom", oLoad), <<"modprobe failed">>)
    ELSE readPrefdlAt(c, e, <<"modprobe">>)

\* getPrefdlData() without the test of the simulation flag
getPrefdlDataReal(c, sim, e, oLoad) ==
  LET r == readPrefdl(c, e, oLoad) IN
  IF r.err # "none" THEN r ELSE PResult(c, r.ret.data, "none", r.ops)

\* getPrefdlData()
getPrefdlData(c, sim, e, oLoad) ==
  IF sim
    THEN PResult(c, Dict({<<"SKU", "simulation">>}), "none", <<>>)
    ELSE LET r == readPrefdl(c, e, oLoad) IN
         IF r.err # "none" THEN r ELSE PResult(c, r.ret.data, "none", r.ops)

\* getSysEeprom() that remembers a failed read as a placeholder mapping
getSysEepromKeepsFailure(c, sim, e, oLoad) ==
  IF ~Truthy(c)
    THEN LET r == getPrefdlData(c, sim, e, oLoad) IN
         IF r.err # "none"
           THEN PResult(Dict({<<"SKU", "unknown">>}), None, r.err, r.ops)
         ELSE IF ~HasKey(r.ret, "SKU")
           THEN PResult(r.ret, None, "AssertionError", r.ops)
         ELSE PResult(r.ret, r.ret, "none", r.ops)
    ELSE PResult(c, c, "none", <<>>)

\* getSysEeprom() that reads the eeprom on every call
getSysEepromUncached(c, sim, e, oLoad) ==
  LET r == getPrefdlData(c, sim, e, oLoad) IN
  IF r.err # "none" THEN r
  ELSE IF ~HasKey(r.ret, "SKU") THEN PResult(r.ret, None, "AssertionError", r.ops)
  ELSE PResult(r.ret, r.ret, "none", r.ops)

\* getSysEeprom()
getSysEeprom(c, sim, e, oLoad) ==
  IF ~Truthy(c)
    THEN LET r == getPrefdlData(c, sim, e, oLoad) IN
         IF r.err # "none" THEN r
         ELSE IF ~HasKey(r.ret, "SKU")
           THEN PResult(r.ret, None, "AssertionError", r.ops)
         ELSE PResult(r.ret, r.ret, "none", r.ops)
    ELSE PResult(c, c, "none", <<>>)

\* detectPlatform()
detectPlatform(c, sim, e, oLoad) ==
  LET r == getSysEeprom(c, sim, e, oLoad) IN
  IF r.err # "none" THEN r
  ELSE IF ~HasKey(r.ret, "SKU") THEN PResult(r.syseeprom, None, "KeyError", r.ops)
  ELSE PResult(r.syseeprom, PyStr(GetItem(r.ret, "SKU")), "none", r.ops)

PApply(call, r) ==
  /\ syseeprom' = r.syseeprom
  /\ op' = call
  /\ ret' = r.ret
  /\ err' = r.err
  /\ ops' = r.ops
  /\ UNCHANGED <<simulation, eeprom>>
  /\ UNCHANGED <<windowVars, registryVars, modeVars, retryVars>>

ReadPrefdl ==
  \E oLoad \in LoadOutcomes :
    /\ ~simulation
    /\ PApply([name |-> "readPrefdl"], readPrefdl(syseeprom, eeprom, oLoad))
    /\ UNCHANGED firstRead

GetPrefdlData ==
  \E oLoad \in LoadOutcomes :
    /\ PApply([name |-> "getPrefdlData"], getPrefdlData(syseeprom, simulation, eeprom, oLoad))
    /\ UNCHANGED firstRead

GetSysEeprom ==
  \E oLoad \in LoadOutcomes :
    LET r == getSysEeprom(syseeprom, simulation, eeprom, oLoad) IN
    /\ PApply([name |-> "getSysEeprom"], r)
    /\ firstRead' = IF firstRead = None /\ r.err = "none" THEN r.ret ELSE firstRead

DetectPlatform ==
  \E oLoad \in LoadOutcomes :
    LET g == getSysEeprom(syseeprom, simulation, eeprom, oLoad) IN
    /\ PApply([name |-> "detectPlatform"],
              detectPlatform(syseeprom, simulation, eeprom, oLoad))
    /\ firstRead' = IF firstRead = None /\ g.err = "none" THEN g.ret ELSE firstRead

\* the hardware changes under the program: the eeprom file appears, goes
\* away, or is rewritten
EepromChange ==
  /\ \E e \in Eeproms : e # eeprom /\ eeprom' = e
  /\ UNCHANGED <<syseeprom, simulation, firstRead>>
  /\ UNCHANGED <<op, ret, err, ops>>
  /\ UNCHANGED <<windowVars, registryVars, modeVars, retryVars>>

NextPlatform ==
  ReadPrefdl \/ GetPrefdlData \/ GetSysEeprom \/ DetectPlatform \/ EepromChange

InitPlatform ==
  /\ syseeprom = None
  /\ simulation \in BOOLEAN
  /\ eeprom \in Eeproms
  /\ firstRead = None

\* platform.py imported and not used
PlatformUnused ==
  /\ syseeprom = None
  /\ simulation = TRUE
  /\ eeprom = [exists |-> FALSE, content |-> Undecodable]
  /\ firstRead = None

\* no MmapResource in use
WindowUnused ==
  /\ mmap_ = None
  /\ file = <<>>
  /\ scope = "out"
  /\ openFds = 0

(***************************************************************************)
(* platform.py: the registry of platform classes                           *)
(***************************************************************************)
\* how many platform objects a run constructs
MaxInstances == 3

\* the skus that classes are registered under
Skus == {"DCS-001", "DCS-002", "simulation"}

\* the classes that the decorator is applied to
Classes == {"PlatformA", "PlatformB"}

\* d[k] = v
DictSet(d, k, v) == Dict({it \in d.items : it[1] # k} \cup {<<k, v>>})

\* a decorator that keeps the class an earlier registration bound to sku
registerPlatformFirstWins(p, sku, cls) ==
  IF HasKey(p, sku) THEN p ELSE DictSet(p, sku, cls)

\* registerPlatform(sku)(cls): the registry after wrapper(cls) has run
registerPlatform(p, sku, cls) == DictSet(p, sku, cls)

\* the n-th object constructed, an instance of cls
Instance(cls, n) == [type |-> cls, id |-> n]

GResult(c, n, r, e, o) ==
  [syseeprom |-> c, instances |-> n, ret |-> r, err |-> e, ops |-> o]

\* platforms[name]() that hands out one object per class
constructOnce(p, n, key, c, o) ==
  IF ~HasKey(p, key) THEN GResult(c, n, None, "KeyError", o)
  ELSE LET made == {i \in n : i.type = GetItem(p, key)} IN
       IF made # {} THEN GResult(c, n, CHOOSE i \in made : TRUE, "none", o)
       ELSE LET i == Instance(GetItem(p, key), Cardinality(n) + 1) IN
            GResult(c, n \cup {i}, i, "none", o)

\* platforms[name]()
construct(p, n, key, c, o) ==
  IF ~HasKey(p, key) THEN GResult(c, n, None, "KeyError", o)
  ELSE LET i == Instance(GetItem(p, key), Cardinality(n) + 1) IN
       GResult(c, n \cup {i}, i, "none", o)

\* getPlatform(name), name None when the argument is omitted
getPlatform(p, n, name, c, sim, e, oLoad) ==
  IF name = None
    THEN LET r == detectPlatform(c, sim, e, oLoad) IN
         IF r.err # "none" THEN GResult(r.syseeprom, n, None, r.err, r.ops)
         ELSE construct(p, n, r.ret.v, r.syseeprom, r.ops)
    ELSE construct(p, n, name.v, c, <<>>)

\* @registerPlatform(sku) applied to a class
RegisterPlatform ==
  \E sku \in Skus, cls \in Classes :
    /\ platforms' = registerPlatform(platforms, sku, cls)
    /\ op' = [name |-> "registerPlatform", sku |-> sku, cls |-> cls]
    /\ ret' = [type |-> cls]
    /\ err' = "none"
    /\ ops' = <<>>
    /\ UNCHANGED <<instances, platformVars>>
    /\ UNCHANGED <<windowVars, modeVars, retryVars>>

GetPlatform ==
  \E name \in {None} \cup {PyStr(k) : k \in Skus}, oLoad \in LoadOutcomes :
    LET r == getPlatform(platforms, instances, name,
                         syseeprom, simulation, eeprom, oLoad)
        g == getSysEeprom(syseeprom, simulation, eeprom, oLoad)
    IN
    /\ Cardinality(instances) < MaxInstances
    /\ instances' = r.instances
    /\ syseeprom' = r.syseeprom
    /\ firstRead' = IF name = None /\ firstRead = None /\ g.err = "none"
                      THEN g.ret ELSE firstRead
    /\ op' = [name |-> "getPlatform", arg |-> name]
    /\ ret' = r.ret
    /\ err' = r.err
    /\ ops' = r.ops
    /\ UNCHANGED <<platforms, simulation, eeprom>>
    /\ UNCHANGED <<windowVars, modeVars, retryVars>>

NextRegistry == RegisterPlatform \/ GetPlatform

(***************************************************************************)
(* utils.py: the kernel command line, simulation and debug                 *)
(***************************************************************************)
\* the longest command line, in pieces
MaxCmdline == 3

\* A text is a sequence of pieces.  The two words are pieces of their own,
\* so a text contains the word exactly when it has the piece; " " stands
\* for any whitespace.
Pieces == {"Aboot", "arista-debug", "=", " "}

Cmdlines == UNION {[1..n -> Pieces] : n \in 0..MaxCmdline}

\* what /proc/cmdline may be rewritten to while the program runs
Rewrites == {<<>>, <<"Aboot">>, <<"arista-debug">>}

\* the least i with s[i] = ch, Len(s) + 1 when there is none
First(s, ch) ==
  IF \E i \in 1..Len(s) : s[i] = ch
    THEN CHOOSE i \in 1..Len(s) : s[i] = ch /\ \A j \in 1..(i - 1) : s[j] # ch
    ELSE Len(s) + 1

\* entry.rfind(ch)
rfind(entry, ch) ==
  IF \E i \in 1..Len(entry) : entry[i] = ch
    THEN (CHOOSE i \in 1..Len(entry) :
            entry[i] = ch /\ \A j \in (i + 1)..Len(entry) : entry[j] # ch) - 1
    ELSE -1

\* entry.find(ch): the 0-based index of the first ch, -1 when there is none
find(entry, ch) ==
  IF First(entry, ch) > Len(entry) THEN -1 ELSE First(entry, ch) - 1

\* f.read().split(): the maximal runs of pieces that are not whitespace
RECURSIVE split(_)
split(s) ==
  IF s = <<>> THEN <<>>
  ELSE IF Head(s) = " " THEN split(Tail(s))
  ELSE LET n == First(s, " ") IN
       <<SubSeq(s, 1, n - 1)>> \o split(SubSeq(s, n + 1, Len(s)))

\* the loop of getCmdlineDict over the entries, data being the dict so far
RECURSIVE parseEntries(_, _)
parseEntries(entries, data) ==
  IF entries = <<>> THEN data
  ELSE LET entry == Head(entries)
           idx == find(entry, "=")
       IN
       parseEntries(Tail(entries),
                    IF idx = -1
                      THEN DictSet(data, entry, None)
                      ELSE DictSet(data, SubSeq(entry, 1, idx),
                                   PyStr(SubSeq(entry, idx + 2, Len(entry)))))

MResult(cd, r, o) == [cmdlineDict |-> cd, ret |-> r, ops |-> o]

\* getCmdlineDict(), text being what /proc/cmdline holds
getCmdlineDict(cd, text) ==
  IF Truthy(cd) THEN MResult(cd, cd, <<>>)
  ELSE LET data == parseEntries(split(text), Dict({})) IN
       MResult(data, data, <<"open">>)

\* libraryInit(): the values of simulation and debug after it
libraryInit(cd, text, sim, dbg) ==
  LET r == getCmdlineDict(cd, text) IN
  [cmdlineDict |-> r.cmdlineDict,
   ops |-> r.ops,
   first |-> r.ret,
   simulation |-> IF HasKey(r.ret, <<"Aboot">>) THEN FALSE ELSE sim,
   debug |-> IF HasKey(r.ret, <<"arista-debug">>) THEN TRUE ELSE dbg]

\* import of utils.py: its last statement is the call libraryInit()
LibraryInit ==
  LET r == libraryInit(cmdlineDict, cmdline, utils_simulation, debug) IN
  /\ op.name = "init"
  /\ cmdlineDict' = r.cmdlineDict
  /\ utils_simulation' = r.simulation
  /\ debug' = r.debug
  /\ firstDict' = r.first
  /\ op' = [name |-> "libraryInit"]
  /\ ret' = None
  /\ err' = "none"
  /\ ops' = r.ops
  /\ UNCHANGED cmdline
  /\ UNCHANGED <<windowVars, platformVars, registryVars, retryVars>>

GetCmdlineDict ==
  LET r == getCmdlineDict(cmdlineDict, cmdline) IN
  /\ op.name # "init"
  /\ cmdlineDict' = r.cmdlineDict
  /\ firstDict' = IF firstDict = None THEN r.ret ELSE firstDict
  /\ op' = [name |-> "getCmdlineDict"]
  /\ ret' = r.ret
  /\ err' = "none"
  /\ ops' = r.ops
  /\ UNCHANGED <<cmdline, utils_simulation, debug>>
  /\ UNCHANGED <<windowVars, platformVars, registryVars, retryVars>>

InDebug ==
  /\ op.name # "init"
  /\ op' = [name |-> "inDebug"]
  /\ ret' = PyBool(debug)
  /\ err' = "none"
  /\ ops' = <<>>
  /\ UNCHANGED modeVars
  /\ UNCHANGED <<windowVars, platformVars, registryVars, retryVars>>

InSimulation ==
  /\ op.name # "init"
  /\ op' = [name |-> "inSimulation"]
  /\ ret' = PyBool(utils_simulation)
  /\ err' = "none"
  /\ ops' = <<>>
  /\ UNCHANGED modeVars
  /\ UNCHANGED <<windowVars, platformVars, registryVars, retryVars>>

\* /proc/cmdline gets another content while the program runs
CmdlineChange ==
  /\ op.name # "init"
  /\ \E text \in Rewrites : text # cmdline /\ cmdline' = text
  /\ UNCHANGED <<cmdlineDict, utils_simulation, debug, firstDict>>
  /\ UNCHANGED <<op, ret, err, ops>>
  /\ UNCHANGED <<windowVars, platformVars, registryVars, retryVars>>

NextMode ==
  LibraryInit \/ GetCmdlineDict \/ InDebug \/ InSimulation \/ CmdlineChange

\* utils.py as its module-level assignments leave it, before libraryInit()
InitMode ==
  /\ cmdline \in Cmdlines
  /\ cmdlineDict = Dict({})
  /\ utils_simulation = TRUE
  /\ debug = FALSE
  /\ firstDict = None

(***************************************************************************)
(* utils.py: Retrying                                                      *)
(***************************************************************************)
\* Times are in ticks.  The longest interval, the longest delay, the
\* largest maxAttempts, and the number of attempts a run hands out
MaxInterval == 3

MaxDelay == 2

MaxAttempts == 2

MaxTokens == 5

\* the arguments of Retrying(interval, delay, maxAttempts)
Policies ==
  [interval : {None} \cup {PyInt(n) : n \in 0..MaxInterval},
   delay : {PyInt(n) : n \in 0..MaxDelay},
   maxAttempts : {None} \cup {PyInt(n) : n \in 0..MaxAttempts}]

\* an elapsed time; all that is told apart beyond the longest interval is
\* that it is longer
Sat(t) == IF t > MaxInterval THEN MaxInterval + 1 ELSE t

Clock(sinceNew, sinceIter) == [sinceNew |-> sinceNew, sinceIter |-> sinceIter]

\* Iterator.__init__: the Iterator object
Iterator(attempt) == [type |-> "Iterator", attempt |-> attempt]

\* an isExpired() for which time never runs out
isExpiredNever(interval, elapsed) == FALSE

\* Iterator.isExpired(), elapsed being datetime.now() - self.startedAt_
isExpired(interval, elapsed) == Truthy(interval) /\ elapsed > interval.v

\* an __iter__ that goes on with the Iterator made before
iterResume(it, clk) ==
  IF it = None THEN [iterator |-> Iterator(0), clock |-> Clock(clk.sinceNew, 0)]
  ELSE [iterator |-> it, clock |-> clk]

\* Retrying.__iter__: a new Iterator, started now
iter(it, clk) == [iterator |-> Iterator(0), clock |-> Clock(clk.sinceNew, 0)]

RResult(it, el, r, e) == [iterator |-> it, elapsed |-> el, ret |-> r, err |-> e]

\* Iterator.__next__, elapsed being the time since startedAt_ at the call
next(pol, it, elapsed) ==
  LET t == Sat(elapsed + pol.delay.v) IN      \* time.sleep(self.delay_)
  IF \/ isExpired(pol.interval, t)
     \/ Truthy(pol.maxAttempts) /\ it.attempt >= pol.maxAttempts.v
    THEN RResult(it, t, None, "StopIteration")
    ELSE LET n == [it EXCEPT !.attempt = @ + 1] IN RResult(n, t, n, "none")

\* iter(retrying), as a for statement does first
Iter ==
  LET r == iter(iterator, clock) IN
  /\ iterator' = r.iterator
  /\ clock' = r.clock
  /\ exhausted' = [exhausted EXCEPT !.iterator = FALSE]
  /\ op' = [name |-> "iter"]
  /\ ret' = r.iterator
  /\ err' = "none"
  /\ ops' = <<>>
  /\ UNCHANGED retrying
  /\ UNCHANGED <<windowVars, platformVars, registryVars, modeVars>>

\* next(iterator)
Advance ==
  LET r == next(retrying, iterator, clock.sinceIter) IN
  /\ iterator # None
  /\ iterator.attempt < MaxTokens
  /\ iterator' = r.iterator
  /\ clock' = Clock(Sat(clock.sinceNew + retrying.delay.v), r.elapsed)
  /\ exhausted' = IF r.err = "StopIteration"
                    THEN [iterator |-> TRUE, policy |-> TRUE] ELSE exhausted
  /\ op' = [name |-> "next"]
  /\ ret' = r.ret
  /\ err' = r.err
  /\ ops' = <<"time.sleep">>
  /\ UNCHANGED retrying
  /\ UNCHANGED <<windowVars, platformVars, registryVars, modeVars>>

\* the caller spends a tick between two calls
Wait ==
  /\ clock # Clock(MaxInterval + 1, MaxInterval + 1)
  /\ clock' = Clock(Sat(clock.sinceNew + 1), Sat(clock.sinceIter + 1))
  /\ op' = [name |-> "wait"]
  /\ ret' = None
  /\ err' = "none"
  /\ ops' = <<>>
  /\ UNCHANGED <<retrying, iterator, exhausted>>
  /\ UNCHANGED <<windowVars, platformVars, registryVars, modeVars>>

NextRetry == Iter \/ Advance \/ Wait

\* a Retrying just constructed
InitRetry ==
  /\ retrying \in Policies
  /\ iterator = None
  /\ clock = Clock(0, 0)
  /\ exhausted = [iterator |-> FALSE, policy |-> FALSE]

\* platform.py imported, nothing registered, no platform constructed
RegistryUnused ==
  /\ platforms = Dict({})
  /\ instances = {}

\* utils.py imported on a machine with an empty kernel command line
ModeUnused ==
  /\ cmdline = <<>>
  /\ cmdlineDict = Dict({})
  /\ utils_simulation = TRUE
  /\ debug = FALSE
  /\ firstDict = None

\* no Retrying in use
RetryUnused ==
  /\ retrying = None
  /\ iterator = None
  /\ clock = None
  /\ exhausted = None

\* a program that uses one MmapResource
StartWindow ==
  InitWindow /\ InitCall /\ PlatformUnused /\ RegistryUnused /\ ModeUnused /\ RetryUnused

SpecWindow == StartWindow /\ [][NextWindow]_vars

\* a program that reads the system eeprom
StartPlatform ==
  InitPlatform /\ InitCall /\ WindowUnused /\ RegistryUnused /\ ModeUnused /\ RetryUnused

SpecPlatform == StartPlatform /\ [][NextPlatform]_vars

\* a program that registers platform classes and asks for platform objects
StartRegistry ==
  InitPlatform /\ InitCall /\ RegistryUnused /\ WindowUnused /\ ModeUnused /\ RetryUnused

SpecRegistry == StartRegistry /\ [][NextRegistry]_vars

\* a program that imports utils.py and asks for its mode
StartMode ==
  InitMode /\ InitCall /\ WindowUnused /\ PlatformUnused /\ RegistryUnused /\ RetryUnused

SpecMode == StartMode /\ [][NextMode]_vars

\* a program that polls with one Retrying
StartRetry ==
  InitRetry /\ InitCall /\ WindowUnused /\ PlatformUnused /\ RegistryUnused /\ ModeUnused

SpecRetry == StartRetry /\ [][NextRetry]_vars

(***************************************************************************)
(* How the error kinds of the specification appear in the code             *)
(***************************************************************************)
\* MapError: __enter__ raises RuntimeError('failed to mmap ...')
MapError == "RuntimeError"

\* AlreadyMapped: the assertion "Resource already mapped" of map()
AlreadyMapped == "AssertionError"

\* NotMapped: subscripting None in read32 / write32
NotMapped == "TypeError"

\* OutOfBounds: unpack of a short slice in read32, slice assignment of the
\* wrong size in write32
OutOfBounds(name) == IF name = "read32" THEN "struct.error" ELSE "IndexError"

SimulationData == Dict({<<"SKU", "simulation">>})

\* HardwareNotFound: RuntimeError("Could not find valid system eeprom")
HardwareNotFound == "RuntimeError"

\* UnknownPlatform: the KeyError of platforms[name]
UnknownPlatform == "KeyError"

\* exhaustion: __next__ raises StopIteration
Exhaustion == "StopIteration"

\* DriverLoadError: whatever modprobe raises when the module cannot be loaded
DriverLoadError == "DriverLoadError"

(***************************************************************************)
(* Claims about MmapResource, under SpecWindow                             *)
(***************************************************************************)
\* C1: close() on a window that is not mapped raises no error and leaves the
\* window unmapped (release is idempotent).
C1_ReleaseIdempotent ==
  [][(mmap_ = None /\ op'.name = "close") => (err' = "none" /\ mmap_' = None)]_vars

\* C2: map() or __enter__ on a window that is already mapped raises the
\* AlreadyMapped error and changes nothing: the mapping and the file are as
\* before, and no primitive ran, so no descriptor was opened and no second
\* mapping made.
C2_ReacquireFails ==
  [][(mmap_ # None /\ op'.name \in {"map", "enter"})
       => /\ err' = AlreadyMapped
          /\ mmap_' = mmap_
          /\ file' = file
          /\ ops' = <<>>
          /\ openFds' = openFds
          /\ scope' = scope]_vars

C2_Witness ==
  /\ op.name = "map"
  /\ err = AlreadyMapped
  /\ scope = "in"
  /\ mmap_ = MmapObj(Len(file))
  /\ openFds = 0

\* C3: when control leaves a `with` block, the window is unmapped and the
\* error raised in the block, if any, is the error the caller gets.
C3_ExitReleases ==
  (op.name = "exit") =>
    (mmap_ = None /\ (op.raised # "none" => err = op.raised))

\* C4: after __enter__ has tried to open the file, no descriptor is left
\* open, and if it failed it failed with MapError and the window is unmapped.
C4_AcquireFailsWithMapError ==
  (op.name = "enter" /\ ops # <<>>) =>
    (openFds = 0 /\ (err # "none" => (err = MapError /\ mmap_ = None)))

\* C5: on a mapped window, write32(a, v) at a 4-byte-aligned a with
\* a + 4 <= size succeeds, stores the bytes of v least significant first at
\* a .. a+3, leaves every other byte as it was, and a read32(a) after it
\* returns v.
C5_RoundTrip ==
  [][/\ \A a \in WriteOffsets(Len(file)), v \in Values :
          ( /\ mmap_ # None
            /\ a % 4 = 0
            /\ a + 4 <= mmap_.len
            /\ op' = [name |-> "write32", addr |-> a, value |-> v] )
          => /\ err' = "none"
             /\ mmap_' = mmap_
             /\ Len(file') = Len(file)
             /\ file'[a + 1] = v.lo % 256
             /\ file'[a + 2] = v.lo \div 256
             /\ file'[a + 3] = v.hi % 256
             /\ file'[a + 4] = v.hi \div 256
             /\ \A i \in 1 .. Len(file) : (i <= a \/ i > a + 4) => file'[i] = file[i]
             /\ read32(mmap_', file', a).err = "none"
             /\ read32(mmap_', file', a).ret = PyInt(v)
     /\ ( /\ op.name = "write32"
          /\ err = "none"
          /\ op.addr % 4 = 0
          /\ op'.name = "read32"
          /\ op'.addr = op.addr )
        => (err' = "none" /\ ret' = PyInt(op.value) /\ file' = file)]_vars

C5_Witness ==
  /\ op = [name |-> "read32", addr |-> 4]
  /\ err = "none"
  /\ ret = PyInt(U32(43707, 52445))
  /\ file[5] = 221
  /\ file[8] = 170
  /\ file[4] = InitialByte(4)

\* C6: on a mapped window of size bytes, read32(a) and write32(a, v) raise
\* the OutOfBounds error exactly when a + 4 > size and succeed when
\* a + 4 <= size (a >= 0); a failing call leaves the file as it was.
C6_OutOfBoundsExactly ==
  [][(mmap_ # None /\ op'.name \in {"read32", "write32"})
       => /\ (op'.addr + 4 > mmap_.len)
               => (err' = OutOfBounds(op'.name) /\ ret' = None /\ file' = file)
          /\ (op'.addr + 4 <= mmap_.len) => err' = "none"
          /\ mmap_' = mmap_]_vars

C6_Witness ==
  /\ mmap_ # None
  /\ op.name = "write32"
  /\ op.addr = mmap_.len - 3
  /\ err = OutOfBounds("write32")
  /\ \E i \in 1 .. Len(file) : file[i] # InitialByte(i)

\* C7: while the window is not mapped, read32 and write32 raise the
\* NotMapped error, return nothing and leave the file and the window as
\* they were.
C7_UnmappedAccessFails ==
  [][(mmap_ = None /\ op'.name \in {"read32", "write32"})
       => (err' = NotMapped /\ ret' = None /\ file' = file /\ mmap_' = None)]_vars

C7_Witness ==
  /\ op.name = "read32"
  /\ err = NotMapped
  /\ mmap_ = None
  /\ scope = "in"
  /\ Len(file) >= 4

(***************************************************************************)
(* Claims about the system eeprom cache, under SpecPlatform                *)
(***************************************************************************)
\* C8: the cached mapping syseeprom is unset (None, or empty, which
\* `if not syseeprom` treats as unset) or has a "SKU" key, and a mapping that
\* getSysEeprom() returns has a "SKU" key.
C8_CacheHasSKU ==
  /\ ~Truthy(syseeprom) \/ HasKey(syseeprom, "SKU")
  /\ (op.name = "getSysEeprom" /\ err = "none") => HasKey(ret, "SKU")

\* C9: once a call of getSysEeprom() has returned, every later call (also
\* the one inside detectPlatform()) leaves the cache as it is and performs no
\* modprobe, no existence check and no decode, and every later
\* getSysEeprom() returns what that first call returned, whatever the eeprom
\* holds by then.
C9_ReadOnce ==
  [][( /\ firstRead # None
       /\ eeprom' = eeprom     \* a call, not a change of the hardware
       /\ op'.name \in {"getSysEeprom", "detectPlatform"} )
       => /\ ops' = <<>>
          /\ syseeprom' = syseeprom
          /\ syseeprom' = firstRead
          /\ op'.name = "getSysEeprom" => (err' = "none" /\ ret' = firstRead)]_vars

C9_Witness ==
  /\ op.name = "getSysEeprom"
  /\ ~simulation
  /\ firstRead = Dict({<<"SKU", "DCS-001">>})
  /\ ret = firstRead
  /\ ops = <<>>
  /\ eeprom = [exists |-> TRUE,
               content |-> Dict({<<"SKU", "DCS-002">>, <<"SerialNumber", "JPE1">>})]

\* C10: in simulation, getPrefdlData() and getSysEeprom() return exactly
\* {"SKU": "simulation"} and perform no modprobe, no existence check and no
\* decode, whatever the eeprom file is.
C10_SimulationData ==
  (simulation /\ op.name \in {"getPrefdlData", "getSysEeprom"})
    => (err = "none" /\ ret = SimulationData /\ ops = <<>>)

C10_Witness ==
  /\ simulation
  /\ op.name = "getPrefdlData"
  /\ ret = SimulationData
  /\ eeprom = [exists |-> TRUE, content |-> Dict({<<"SKU", "DCS-001">>})]

\* C11: in real mode readPrefdl() first loads the eeprom driver; when the
\* load fails its error ends the call before any candidate is looked at.
\* Otherwise the candidate address is visited: a missing file is skipped
\* without a decode, a decode failure is caught and the search goes on, the
\* result is the decode of the first candidate that decodes, and the call
\* raises HardwareNotFound exactly when no candidate decodes.
C11_Search ==
  [][( /\ ~simulation
       /\ eeprom' = eeprom     \* a call, not a change of the hardware
       /\ op'.name = "readPrefdl" )
       => /\ ops' # <<>>
          /\ ops'[1] \in {"modprobe", "modprobe failed"}
          /\ ops'[1] = "modprobe failed" => (err' = DriverLoadError /\ Len(ops') = 1)
          /\ ops'[1] = "modprobe" =>
               /\ Len(ops') >= 2 /\ ops'[2] = "os.path.exists"
               /\ ~eeprom.exists => Len(ops') = 2
               /\ err' \in {"none", HardwareNotFound}
               /\ err' = HardwareNotFound
                    <=> ~(eeprom.exists /\ eeprom.content \in Decoded)
               /\ err' = "none" => ret' = Prefdl(eeprom.content)
          /\ syseeprom' = syseeprom]_vars

C11_Witness ==
  /\ ~simulation
  /\ op.name = "readPrefdl"
  /\ err = HardwareNotFound
  /\ ops = <<"modprobe", "os.path.exists", "prefdl.decode failed">>
  /\ eeprom = [exists |-> TRUE, content |-> Undecodable]

\* C20: a getSysEeprom() that fails with HardwareNotFound leaves the cache
\* as it was: holding nothing that a later call would return.  The
\* getSysEeprom() after it searches again from the driver load on; if the
\* driver loads and by then the eeprom decodes to a mapping with a SKU, that
\* call returns the mapping and caches it.
C20_FailureNotCached ==
  [][/\ ( /\ eeprom' = eeprom
          /\ op'.name = "getSysEeprom"
          /\ err' = HardwareNotFound )
        => (syseeprom' = syseeprom /\ ~Truthy(syseeprom'))
     /\ ( /\ op.name = "getSysEeprom"
          /\ err = HardwareNotFound
          /\ eeprom' = eeprom
          /\ op'.name = "getSysEeprom" )
        => /\ ops' # <<>>
           /\ ops'[1] \in {"modprobe", "modprobe failed"}
           /\ ( /\ ops'[1] = "modprobe"
                /\ eeprom.exists
                /\ eeprom.content \in Decoded
                /\ HasKey(eeprom.content, "SKU") )
              => /\ err' = "none"
                 /\ ret' = eeprom.content
                 /\ syseeprom' = eeprom.content]_vars

C20_Witness ==
  /\ ~simulation
  /\ op.name = "getSysEeprom"
  /\ err = HardwareNotFound
  /\ ~Truthy(syseeprom)
  /\ eeprom = [exists |-> TRUE, content |-> Dict({<<"SKU", "DCS-001">>})]

\* C12: a registration binds its sku to its class, replacing an earlier
\* binding of that sku and leaving every other sku as it was; no step
\* removes a sku from the registry; getPlatform(sku) constructs from the
\* class bound by the latest registration of sku, and for a sku that has no
\* registration it raises UnknownPlatform and leaves the registry unchanged.
C12_LastWins ==
  [][/\ \A k \in Skus : HasKey(platforms, k) => HasKey(platforms', k)
     /\ \A a, b \in platforms'.items : a[1] = b[1] => a = b
     /\ op'.name = "registerPlatform" =>
          /\ <<op'.sku, op'.cls>> \in platforms'.items
          /\ \A k \in Skus \ {op'.sku}, c \in Classes :
               <<k, c>> \in platforms'.items <=> <<k, c>> \in platforms.items
     /\ (op'.name = "getPlatform" /\ op'.arg # None) =>
          /\ platforms' = platforms
          /\ err' \in {"none", UnknownPlatform}
          /\ err' = UnknownPlatform <=> ~HasKey(platforms, op'.arg.v)
          /\ err' = UnknownPlatform => ret' = None
          /\ err' = "none" => <<op'.arg.v, ret'.type>> \in platforms.items
     /\ ( /\ op.name = "registerPlatform"
          /\ op'.name = "getPlatform"
          /\ op'.arg = PyStr(op.sku) )
        => (err' = "none" /\ ret'.type = op.cls)]_vars

C12_Witness ==
  /\ platforms = Dict({<<"DCS-001", "PlatformB">>})
  /\ op = [name |-> "getPlatform", arg |-> PyStr("DCS-001")]
  /\ ret = Instance("PlatformB", 2)
  /\ instances = {Instance("PlatformA", 1), Instance("PlatformB", 2)}

\* C13: getPlatform() without a name constructs from the class registered
\* under the "SKU" entry of the system eeprom mapping; getPlatform(name)
\* neither reads nor fills the system eeprom cache; every getPlatform that
\* returns has constructed an object that no earlier call returned.
C13_FreshInstance ==
  [][op'.name = "getPlatform" =>
       /\ (op'.arg = None /\ err' = "none") =>
            /\ HasKey(syseeprom', "SKU")
            /\ <<GetItem(syseeprom', "SKU"), ret'.type>> \in platforms.items
       /\ op'.arg # None =>
            /\ ops' = <<>>
            /\ syseeprom' = syseeprom
            /\ err' = "none" => <<op'.arg.v, ret'.type>> \in platforms.items
       /\ err' = "none" =>
            /\ ret' \notin instances
            /\ instances' = instances \cup {ret'}
       /\ err' # "none" => instances' = instances]_vars

C13_Witness ==
  /\ ~simulation
  /\ op = [name |-> "getPlatform", arg |-> None]
  /\ err = "none"
  /\ ret = Instance("PlatformA", 2)
  /\ Instance("PlatformA", 1) \in instances
  /\ syseeprom = Dict({<<"SKU", "DCS-001">>})

\* the text has the word somewhere
Contains(text, word) == \E i \in 1..Len(text) : text[i] = word

\* the text has the word as a token of its own, or as the key of a
\* key=value token
HasToken(text, word) ==
  \E i \in 1..Len(text) :
    /\ text[i] = word
    /\ i = 1 \/ text[i - 1] = " "
    /\ i = Len(text) \/ text[i + 1] \in {" ", "="}

\* C14 as stated: after import, simulation is false exactly when the
\* command line contains "Aboot", and debug is true exactly when it
\* contains "arista-debug".
C14_ContainsDecides ==
  [][(op.name = "init" /\ op'.name = "libraryInit") =>
       /\ utils_simulation' = ~Contains(cmdline, "Aboot")
       /\ debug' = Contains(cmdline, "arista-debug")]_vars

\* C14, amended: after import, simulation is false exactly when the command
\* line has the token Aboot or a token Aboot=value, and debug is true
\* exactly when it has the token arista-debug or arista-debug=value; no
\* later step changes either, and inSimulation() and inDebug() return them.
C14_TokenDecides ==
  [][/\ (op.name = "init" /\ op'.name = "libraryInit") =>
          /\ utils_simulation' = ~HasToken(cmdline, "Aboot")
          /\ debug' = HasToken(cmdline, "arista-debug")
     /\ op.name # "init" => UNCHANGED <<utils_simulation, debug>>
     /\ op'.name = "inSimulation" => ret' = PyBool(utils_simulation)
     /\ op'.name = "inDebug" => ret' = PyBool(debug)]_vars

C14_Witness ==
  /\ op.name = "libraryInit"
  /\ cmdline = <<"arista-debug", "=", "Aboot">>
  /\ utils_simulation
  /\ debug

\* C15: once a getCmdlineDict() has returned, a later getCmdlineDict()
\* does not open /proc/cmdline and returns the mapping of the first call.
C15_ComputedOnce ==
  [][(firstDict # None /\ op'.name = "getCmdlineDict")
       => (ops' = <<>> /\ ret' = firstDict)]_vars

\* C16: an advance that hands out a token has incremented the attempt
\* counter by one and returns the iterator that carries it; with maxAttempts
\* configured, 0 included, the counter of a token never exceeds maxAttempts;
\* an advance that signals exhaustion leaves the counter unchanged.
C16_AtMostN ==
  [][op'.name = "next" =>
       /\ err' = "none" =>
            /\ iterator'.attempt = iterator.attempt + 1
            /\ ret' = iterator'
            /\ retrying.maxAttempts # None =>
                 iterator'.attempt <= retrying.maxAttempts.v
       /\ err' = Exhaustion => iterator' = iterator]_vars

\* C17: with a positive delay, an iteration of a policy whose interval is
\* configured hands out no more tokens than the interval has delays (a tick
\* at least), and one whose maxAttempts is configured hands out no more
\* than maxAttempts, 0 included in both: the advance after that signals
\* exhaustion.
C17_Finite ==
  (iterator # None /\ retrying.delay.v > 0) =>
    /\ retrying.interval # None => iterator.attempt <= retrying.interval.v
    /\ retrying.maxAttempts # None => iterator.attempt <= retrying.maxAttempts.v

Ceil(i, d) == (i + d - 1) \div d

\* interval I and delay D with 0 < D < I, and no maxAttempts
IntervalOnly(pol) ==
  /\ pol.interval # None
  /\ 0 < pol.delay.v
  /\ pol.delay.v < pol.interval.v
  /\ pol.maxAttempts = None

\* C19: for a policy with interval I, delay D, 0 < D < I, and no
\* maxAttempts, an iteration hands out at most ceil(I / D) + 1 tokens, and
\* the first advance of an iteration, whose sleep of D ends before I has
\* passed, hands out a token.
C19_AttemptBounds ==
  [][IntervalOnly(retrying) =>
       /\ iterator' # None =>
            iterator'.attempt <= Ceil(retrying.interval.v, retrying.delay.v) + 1
       /\ (op.name = "iter" /\ op'.name = "next") =>
            (err' = "none" /\ iterator'.attempt = 1)]_vars

C19_Witness ==
  /\ retrying = [interval |-> PyInt(3), delay |-> PyInt(1), maxAttempts |-> None]
  /\ op.name = "next"
  /\ err = Exhaustion
  /\ iterator.attempt = 3
  /\ clock.sinceIter = 4

====
